---- MODULE Spec2Model ----
(***************************************************************************)
(* Model of the serialized execution core of readme_agent_components.py:   *)
(* class PlaywrightWorker (task_queue, worker thread, run), the module     *)
(* global global_worker, and the components that reach the worker through  *)
(* it (PlaywrightOpenBrowser.execute and the `global_worker.run(f, page)`  *)
(* call every other component makes).                                      *)
(*                                                                         *)
(* Caller threads and worker threads are interleaved one source statement  *)
(* (or one group of statements local to the thread) at a time.             *)
(***************************************************************************)
EXTENDS Integers, Sequences, FiniteSets, TLC

\* ---------------------------------------------------------------- bounds
NumCallers == 2

Callers == 1..NumCallers

\* Values (objects, lists, scalars) in one JSON response.
MaxNodes == 3

\* Requests that finish during one run of PlaywrightCaptureEndpoint.
MaxRequests == 2
\* A caller constructs a PlaywrightWorker only after reading global_worker
\* as None, which it can do at most once: at most NumCallers workers exist.
\* The worker object caller c constructs is worker c.
Workers == 1..NumCallers

\* ---------------------------------------------------------------- values
\* Every Python value that travels through the queues is a record of one
\* shape: kind names what it is, c names the caller whose call produced it.
Ref(kind, c) == [kind |-> kind, c |-> c]
NoVal == Ref("none", 0)

\* The callables handed to PlaywrightWorker.run.
\*   "open_browser" : the closure of PlaywrightOpenBrowser.execute
\*   "ret"          : a callable that returns a value
\*   "exc"          : a callable that raises an instance of Exception
\*   "base"         : a callable that raises a BaseException that is not an
\*                    Exception (SystemExit, KeyboardInterrupt, GeneratorExit)
PlainFuncs == {"ret", "exc", "base"}

\* The two lambdas PlaywrightDynamicElementHandle.execute submits, one after
\* the other's result has come back (lines 895 and 899).
HandleFuncs == {"element_handle", "evaluate_handle"}

\* What a caller may hand to run as func: a callable, or an object that is
\* not callable (None).
RunArgs == PlainFuncs \cup {"not_callable"}

\* The tuple (func, args, kwargs, result_queue) put on task_queue; rq is the
\* caller whose run() created the result_queue.
Task(c, func) == [c |-> c, func |-> func, rq |-> c]
NoTask == [c |-> 0, func |-> "none", rq |-> 0]

\* A task on a queue, with the position at which it was put on that queue
\* (history: the n-th put on this task_queue has ticket n).
Queued(t, n) == [task |-> t, ticket |-> n]

\* How a callable ends: it returns val, or raises val.
Returns(val) == [tag |-> "ret", val |-> val]
Raises(val) == [tag |-> "raise", val |-> val]
NoOutcome == [tag |-> "none", val |-> NoVal]

\* What the callable of task t returns or raises.  Each is an object made
\* by that call, so it names the caller.
FuncValue(t) == Ref("value", t.c)
FuncError(t) == Ref("error", t.c)
Handles(t) == Ref("handles", t.c)
DriverError(t) == Ref("DriverError", t.c)
\* AttributeError: 'NoneType' object has no attribute ...
AttributeError(c) == Ref("AttributeError", c)

\* ValueError raised by a component in the caller's own thread.
ValueError(c) == Ref("ValueError", c)
\* What the two lambdas can return: element_handle() gives a handle or None,
\* evaluate_handle(script) a handle that is an element or one that is not.
NoneOf(t) == Ref("None", t.c)
ElementHandle(t) == Ref("element_handle", t.c)
TransformedElement(t) == Ref("transformed_element", t.c)
TransformedOther(t) == Ref("transformed_non_element", t.c)

\* TypeError: 'NoneType' object is not callable (line 26, func(*args)).
TypeError(c) == Ref("TypeError", c)

\* The outcome of line 26 for a plain func argument.
FuncOutcome(t) ==
    IF t.func = "ret" THEN Returns(FuncValue(t))
    ELSE IF t.func = "not_callable" THEN Raises(TypeError(t.c))
    ELSE Raises(FuncError(t))

VARIABLES
    global_worker,  \* module global: 0 is None, else a worker
    nworkers,       \* number of PlaywrightWorker objects constructed
    wpc,            \* worker thread position
    task_queue,     \* self.task_queue of each worker
    wtask,          \* the task the worker thread holds (func, ..., result_queue)
    using,          \* driver session the running open_browser closure drives
    playwright,     \* self._playwright: 0 is None, else a session
    browser,        \* self._browser
    page,           \* self._page
    pc,             \* caller position
    cur,            \* the task of the caller's call
    cw,             \* the worker the caller constructed in this call (0: none)
    subWorker,      \* the worker whose task_queue the caller put its task on
    reply,          \* the caller's result_queue
    last,           \* how the caller's call of run ended
    opres,          \* history: how the caller's callable ended on the worker
    out,            \* component outputs browser / page / worker
    ctx,            \* ctx["browser"], ctx["page"]
    raised,         \* exception execute raised in the caller's own thread
    kpc,            \* position of the component run on its own ("none": no run)
    kin,            \* its inPorts
    kenv,           \* what the page and the driver do during the run
    kout,           \* its outPorts and the exception execute raised
    nput,           \* per worker: number of puts on its task_queue so far
    begun           \* per worker: tickets of the tasks the loop has taken

vars == <<global_worker, nworkers, wpc, task_queue, wtask, using, playwright,
          browser, page, pc, cur, cw, subWorker, reply, last, opres, out,
          ctx, raised, nput, begun, kpc, kin, kenv, kout>>

\* The worker, the callers and their calls.
mainVars == <<global_worker, nworkers, wpc, task_queue, wtask, using, playwright,
              browser, page, pc, cur, cw, subWorker, reply, last, opres, out,
              ctx, raised, nput, begun>>
\* One component's execute, followed on its own.
compVars == <<kpc, kin, kenv, kout>>

workerVars == <<wpc, task_queue, wtask, using, playwright, browser, page>>
callerLocals == <<cur, cw, subWorker, last, out, ctx, raised>>
history == <<opres, nput, begun>>

NoOut == [browser |-> NoVal, page |-> NoVal, worker |-> 0, locator |-> NoVal]

\* ------------------------------------------------------------ queue.Queue
QueuePut(q, item) == Append(q, item)

QueueGetLast(q) == [item |-> q[Len(q)], rest |-> SubSeq(q, 1, Len(q) - 1)]

QueueGet(q) == [item |-> Head(q), rest |-> Tail(q)]

\* ------------------------------------------------- PlaywrightWorker._run
\* Line 28: `except Exception` catches what derives from Exception only.
CaughtByLoop(func) == func # "base"

\* Lines 26-29: the tuple the loop builds from the callable's outcome,
\* (True, result) or (False, e).
LoopReply(o) == [success |-> o.tag = "ret", result |-> o.val]

\* The result_queue the loop puts the reply on: the one in the task tuple.
ResultQueueOfOther(t) == IF t.rq = NumCallers THEN 1 ELSE t.rq + 1

ResultQueueOf(t) == t.rq

\* -------------------------------------------------- PlaywrightWorker.run
\* Line 34: result_queue.get() with no timeout: on an empty queue the caller
\* blocks (no result), otherwise it takes the oldest reply.
ReceivedNoWait(q) ==
    IF q = <<>>
    THEN {[item |-> [success |-> TRUE, result |-> Ref("early", 0)], rest |-> q]}
    ELSE {QueueGet(q)}

Received(q) == IF q = <<>> THEN {} ELSE {QueueGet(q)}

\* Lines 35-38: value returned or failure raised from the reply tuple.
RunOutcome(r) == IF r.success THEN Returns(r.result) ELSE Raises(r.result)

WorkerInit ==
    /\ global_worker = 0
    /\ nworkers = 0
    /\ wpc = [w \in Workers |-> "none"]
    /\ task_queue = [w \in Workers |-> <<>>]
    /\ wtask = [w \in Workers |-> NoTask]
    /\ using = [w \in Workers |-> 0]
    /\ playwright = [w \in Workers |-> 0]
    /\ browser = [w \in Workers |-> NoVal]
    /\ page = [w \in Workers |-> NoVal]
    /\ pc = [c \in Callers |-> "idle"]
    /\ cur = [c \in Callers |-> NoTask]
    /\ cw = [c \in Callers |-> 0]
    /\ subWorker = [c \in Callers |-> 0]
    /\ reply = [c \in Callers |-> <<>>]
    /\ last = [c \in Callers |-> NoOutcome]
    /\ opres = [c \in Callers |-> NoOutcome]
    /\ out = [c \in Callers |-> NoOut]
    /\ ctx = [browser |-> NoVal, page |-> NoVal]
    /\ raised = [c \in Callers |-> NoVal]
    /\ nput = [w \in Workers |-> 0]
    /\ begun = [w \in Workers |-> {}]

Init ==
    /\ WorkerInit
    /\ kpc = "none"
    /\ kin = NoVal
    /\ kenv = NoVal
    /\ kout = NoVal

\* ---------------------------------------------------------------- callers

\* PlaywrightOpenBrowser.execute, line 78 (if global_worker is None) and, when
\* it is, lines 14-16 of PlaywrightWorker.__init__: the queue is created and
\* the worker thread started.
OpenBrowserBegin(c) ==
    /\ pc[c] = "idle"
    /\ cur' = [cur EXCEPT ![c] = Task(c, "open_browser")]
    /\ IF global_worker = 0
       THEN /\ nworkers' = nworkers + 1
            /\ task_queue' = [task_queue EXCEPT ![c] = <<>>]
            /\ wpc' = [wpc EXCEPT ![c] = "start"]
            /\ cw' = [cw EXCEPT ![c] = c]
            /\ pc' = [pc EXCEPT ![c] = "o_init"]
       ELSE /\ pc' = [pc EXCEPT ![c] = "put"]
            /\ UNCHANGED <<nworkers, task_queue, wpc, cw>>
    /\ UNCHANGED <<global_worker, wtask, using, playwright, browser, page,
                   subWorker, reply, last, out, ctx, raised, history>>
    /\ UNCHANGED compVars

\* Lines 17-19: the constructor, after the thread is running, stores None in
\* _playwright, _browser and _page.
InitFields(c) ==
    /\ pc[c] = "o_init"
    /\ playwright' = [playwright EXCEPT ![cw[c]] = 0]
    /\ browser' = [browser EXCEPT ![cw[c]] = NoVal]
    /\ page' = [page EXCEPT ![cw[c]] = NoVal]
    /\ pc' = [pc EXCEPT ![c] = "o_assign"]
    /\ UNCHANGED <<global_worker, nworkers, wpc, task_queue, wtask, using,
                   callerLocals, reply, history>>
    /\ UNCHANGED compVars

\* Line 79: global_worker = <the new worker>
AssignGlobal(c) ==
    /\ pc[c] = "o_assign"
    /\ global_worker' = cw[c]
    /\ pc' = [pc EXCEPT ![c] = "put"]
    /\ UNCHANGED <<nworkers, workerVars, callerLocals, reply, history>>
    /\ UNCHANGED compVars

\* global_worker.run(...), lines 32-33: the global is read at the call; on
\* None the attribute lookup raises AttributeError in the caller.  Otherwise
\* a fresh result_queue is made and the task put on that worker's queue.
Submit(c, t) ==
    /\ IF global_worker = 0
       THEN /\ last' = [last EXCEPT ![c] = Raises(AttributeError(c))]
            /\ pc' = [pc EXCEPT ![c] = "done"]
            /\ UNCHANGED <<task_queue, nput, subWorker, reply, opres>>
       ELSE /\ task_queue' = [task_queue EXCEPT ![global_worker] =
                                QueuePut(@, Queued(t, nput[global_worker] + 1))]
            /\ nput' = [nput EXCEPT ![global_worker] = @ + 1]
            /\ subWorker' = [subWorker EXCEPT ![c] = global_worker]
            /\ reply' = [reply EXCEPT ![c] = <<>>]
            /\ pc' = [pc EXCEPT ![c] = "wait"]
            /\ last' = [last EXCEPT ![c] = NoOutcome]
            /\ opres' = [opres EXCEPT ![c] = NoOutcome]
    /\ UNCHANGED <<global_worker, nworkers, wpc, wtask, using, playwright, browser,
                   page, cw, out, ctx, raised, begun>>

\* Line 91: global_worker.run(open_browser)
OpenBrowserRun(c) ==
    /\ pc[c] = "put"
    /\ Submit(c, cur[c])
    /\ UNCHANGED cur
    /\ UNCHANGED compVars

CallRunLazy(c) ==
    /\ pc[c] = "idle"
    /\ IF global_worker = 0
       THEN /\ global_worker' = c
            /\ nworkers' = nworkers + 1
            /\ wpc' = [wpc EXCEPT ![c] = "start"]
            /\ UNCHANGED <<task_queue, wtask, using, playwright, browser, page,
                           pc, callerLocals, reply, history>>
       ELSE \E func \in RunArgs :
              /\ cur' = [cur EXCEPT ![c] = Task(c, func)]
              /\ Submit(c, Task(c, func))
    /\ UNCHANGED compVars

\* A caller thread calls global_worker.run(func, ...) with a plain callable,
\* as the components other than PlaywrightOpenBrowser do.
CallRun(c) ==
    /\ pc[c] = "idle"
    /\ \E func \in RunArgs :
         /\ cur' = [cur EXCEPT ![c] = Task(c, func)]
         /\ Submit(c, Task(c, func))
    /\ UNCHANGED compVars

\* Lines 34-38: result_queue.get() blocks until a reply is there; then the
\* value is returned or the failure raised (out of execute as well).
RunGet(c) ==
    /\ pc[c] = "wait"
    /\ \E got \in Received(reply[c]) :
         /\ reply' = [reply EXCEPT ![c] = got.rest]
         /\ last' = [last EXCEPT ![c] = RunOutcome(got.item)]
         /\ pc' = [pc EXCEPT ![c] =
                     IF got.item.success /\ cur[c].func = "open_browser"
                     THEN "o_out"
                     ELSE IF got.item.success /\ cur[c].func = "element_handle"
                     THEN "d_next"
                     ELSE IF got.item.success /\ cur[c].func = "evaluate_handle"
                     THEN "d_out"
                     ELSE "done"]
    /\ UNCHANGED <<global_worker, nworkers, workerVars, cur, cw, subWorker,
                   out, ctx, raised, history>>
    /\ UNCHANGED compVars

\* Lines 92-94: the component's outputs; line 94 reads global_worker again.
OpenOut(c) ==
    /\ pc[c] = "o_out"
    /\ out' = [out EXCEPT ![c].browser = last[c].val, ![c].page = last[c].val,
                           ![c].worker = global_worker]
    /\ pc' = [pc EXCEPT ![c] = "o_ctxb"]
    /\ UNCHANGED <<global_worker, nworkers, workerVars, cur, cw, subWorker,
                   last, ctx, raised, reply, history>>
    /\ UNCHANGED compVars

\* Line 95: ctx["browser"] = browser.  ctx is shared by the callers and no
\* lock is held, so another caller's lines 95-96 may come before line 96.
OpenCtxBrowser(c) ==
    /\ pc[c] = "o_ctxb"
    /\ ctx' = [ctx EXCEPT !.browser = last[c].val]
    /\ pc' = [pc EXCEPT ![c] = "o_ctxp"]
    /\ UNCHANGED <<global_worker, nworkers, workerVars, cur, cw, subWorker,
                   last, out, raised, reply, history>>
    /\ UNCHANGED compVars

\* Line 96: ctx["page"] = page; execute returns.
OpenCtxPage(c) ==
    /\ pc[c] = "o_ctxp"
    /\ ctx' = [ctx EXCEPT !.page = last[c].val]
    /\ pc' = [pc EXCEPT ![c] = "done"]
    /\ UNCHANGED <<global_worker, nworkers, workerVars, cur, cw, subWorker,
                   last, out, raised, reply, history>>
    /\ UNCHANGED compVars

\* PlaywrightDynamicElementHandle.execute, lines 883-895, with page, locator
\* and script given: global_worker.run(lambda p: ...element_handle(), page_obj)
DynFirstRun(c) ==
    /\ pc[c] = "idle"
    /\ cur' = [cur EXCEPT ![c] = Task(c, "element_handle")]
    /\ Submit(c, Task(c, "element_handle"))
    /\ UNCHANGED compVars

DynSecondRunNoAwait(c) ==
    /\ pc[c] \in {"wait", "d_next"}
    /\ cur[c].func = "element_handle"
    /\ cur' = [cur EXCEPT ![c] = Task(c, "evaluate_handle")]
    /\ Submit(c, Task(c, "evaluate_handle"))
    /\ UNCHANGED compVars

\* Lines 896-899: a falsy element_handle raises ValueError; otherwise
\* global_worker.run(lambda p: element_handle.evaluate_handle(script), page_obj)
DynSecondRun(c) ==
    /\ pc[c] = "d_next"
    /\ IF last[c].val.kind = "None"
       THEN /\ raised' = [raised EXCEPT ![c] = ValueError(c)]
            /\ pc' = [pc EXCEPT ![c] = "done"]
            /\ UNCHANGED <<global_worker, nworkers, workerVars, cur, cw, subWorker,
                           last, out, ctx, reply, history>>
       ELSE /\ cur' = [cur EXCEPT ![c] = Task(c, "evaluate_handle")]
            /\ Submit(c, Task(c, "evaluate_handle"))
    /\ UNCHANGED compVars

\* Lines 900-905: as_element() of the transformed handle; None raises
\* ValueError, otherwise the outputs are set.
DynOut(c) ==
    /\ pc[c] = "d_out"
    /\ IF last[c].val.kind = "transformed_element"
       THEN /\ out' = [out EXCEPT ![c].locator = last[c].val]
            /\ UNCHANGED raised
       ELSE /\ raised' = [raised EXCEPT ![c] = ValueError(c)]
            /\ UNCHANGED out
    /\ pc' = [pc EXCEPT ![c] = "done"]
    /\ UNCHANGED <<global_worker, nworkers, workerVars, cur, cw, subWorker,
                   last, ctx, reply, history>>
    /\ UNCHANGED compVars

\* --------------------------------------------------------- worker threads

\* Line 22: self._playwright = sync_playwright().start(); a failure here is
\* outside any try and ends the thread.
StartDriver(w) ==
    /\ wpc[w] = "start"
    /\ \/ /\ playwright' = [playwright EXCEPT ![w] = w]
          /\ wpc' = [wpc EXCEPT ![w] = "idle"]
       \/ /\ wpc' = [wpc EXCEPT ![w] = "dead_init"]
          /\ UNCHANGED playwright
    /\ UNCHANGED <<global_worker, nworkers, task_queue, wtask, using, browser, page,
                   pc, callerLocals, reply, history>>
    /\ UNCHANGED compVars

\* Line 24: self.task_queue.get()
TakeTask(w) ==
    /\ wpc[w] = "idle"
    /\ task_queue[w] # <<>>
    /\ LET got == QueueGet(task_queue[w]) IN
         /\ wtask' = [wtask EXCEPT ![w] = got.item.task]
         /\ task_queue' = [task_queue EXCEPT ![w] = got.rest]
         /\ begun' = [begun EXCEPT ![w] = @ \cup {got.item.ticket}]
    /\ wpc' = [wpc EXCEPT ![w] = "exec"]
    /\ UNCHANGED <<global_worker, nworkers, using, playwright, browser, page,
                   pc, callerLocals, reply, opres, nput>>
    /\ UNCHANGED compVars

PutReplyDrop(w, o) ==
    /\ opres' = [opres EXCEPT ![wtask[w].c] = o]
    /\ reply' = reply
    /\ wtask' = [wtask EXCEPT ![w] = NoTask]
    /\ using' = [using EXCEPT ![w] = 0]
    /\ wpc' = [wpc EXCEPT ![w] = "idle"]

\* Lines 27 and 29: the callable has ended with outcome o; the loop puts the
\* reply on the task's result_queue and goes back to line 24.
PutReply(w, o) ==
    /\ opres' = [opres EXCEPT ![wtask[w].c] = o]
    /\ reply' = [reply EXCEPT ![ResultQueueOf(wtask[w])] = QueuePut(@, LoopReply(o))]
    /\ wtask' = [wtask EXCEPT ![w] = NoTask]
    /\ using' = [using EXCEPT ![w] = 0]
    /\ wpc' = [wpc EXCEPT ![w] = "idle"]

\* Lines 25-29 for a plain callable: it returns, or raises an Exception
\* (caught, line 28), or raises a BaseException that line 28 does not catch:
\* the exception leaves _run and the thread ends without a reply.
ExecFunc(w) ==
    /\ wpc[w] = "exec"
    /\ wtask[w].func \in RunArgs
    /\ IF wtask[w].func = "ret" \/ CaughtByLoop(wtask[w].func)
       THEN PutReply(w, FuncOutcome(wtask[w]))
       ELSE /\ wpc' = [wpc EXCEPT ![w] = "dead_exc"]
            /\ opres' = [opres EXCEPT ![wtask[w].c] = FuncOutcome(wtask[w])]
            /\ wtask' = [wtask EXCEPT ![w] = NoTask]
            /\ UNCHANGED <<reply, using>>
    /\ UNCHANGED <<global_worker, nworkers, task_queue, playwright, browser, page,
                   pc, callerLocals, nput, begun>>
    /\ UNCHANGED compVars

\* Lines 25-29 for the lambdas of PlaywrightDynamicElementHandle: what the
\* driver hands back is not decided by the caller, and the driver call may
\* raise (no element within the timeout, a closed page): line 28 catches it
\* and line 29 replies (False, e).
ExecHandle(w) ==
    /\ wpc[w] = "exec"
    /\ wtask[w].func \in HandleFuncs
    /\ \/ IF wtask[w].func = "element_handle"
          THEN \/ PutReply(w, Returns(ElementHandle(wtask[w])))
               \/ PutReply(w, Returns(NoneOf(wtask[w])))
          ELSE \/ PutReply(w, Returns(TransformedElement(wtask[w])))
               \/ PutReply(w, Returns(TransformedOther(wtask[w])))
       \/ PutReply(w, Raises(DriverError(wtask[w])))
    /\ UNCHANGED <<global_worker, nworkers, task_queue, playwright, browser, page,
                   pc, callerLocals, nput, begun>>
    /\ UNCHANGED compVars

\* Line 84: global_worker.get_playwright().chromium.launch(...).  The global
\* is read when the closure runs; a None session raises AttributeError, and
\* the launch itself may fail.
OpenLaunch(w) ==
    /\ wpc[w] = "exec"
    /\ wtask[w].func = "open_browser"
    /\ IF playwright[global_worker] = 0
       THEN PutReply(w, Raises(AttributeError(wtask[w].c)))
       ELSE \/ PutReply(w, Raises(DriverError(wtask[w])))
            \/ /\ using' = [using EXCEPT ![w] = playwright[global_worker]]
               /\ wpc' = [wpc EXCEPT ![w] = "ob_launched"]
               /\ UNCHANGED <<reply, wtask, opres>>
    /\ UNCHANGED <<global_worker, nworkers, task_queue, playwright, browser, page,
                   pc, callerLocals, nput, begun>>
    /\ UNCHANGED compVars

OpenGotoStoreFirst(w) ==
    /\ wpc[w] = "ob_launched"
    /\ browser' = [browser EXCEPT ![global_worker] = Handles(wtask[w])]
    /\ \/ PutReply(w, Raises(DriverError(wtask[w])))
       \/ /\ wpc' = [wpc EXCEPT ![w] = "ob_setb"]
          /\ UNCHANGED <<reply, wtask, using, opres>>
    /\ UNCHANGED <<global_worker, nworkers, task_queue, playwright, page,
                   pc, callerLocals, nput, begun>>
    /\ UNCHANGED compVars

\* Lines 85-87: new_page and goto may fail; then set_browser on the worker
\* global_worker names now.
OpenGoto(w) ==
    /\ wpc[w] = "ob_launched"
    /\ \/ /\ PutReply(w, Raises(DriverError(wtask[w])))
          /\ UNCHANGED browser
       \/ /\ browser' = [browser EXCEPT ![global_worker] = Handles(wtask[w])]
          /\ wpc' = [wpc EXCEPT ![w] = "ob_setb"]
          /\ UNCHANGED <<reply, wtask, using, opres>>
    /\ UNCHANGED <<global_worker, nworkers, task_queue, playwright, page,
                   pc, callerLocals, nput, begun>>
    /\ UNCHANGED compVars

\* Lines 88-89: set_page on the worker global_worker names now; return.
OpenSetPage(w) ==
    /\ wpc[w] = "ob_setb"
    /\ page' = [page EXCEPT ![global_worker] = Handles(wtask[w])]
    /\ PutReply(w, Returns(Handles(wtask[w])))
    /\ UNCHANGED <<global_worker, nworkers, task_queue, playwright, browser,
                   pc, callerLocals, nput, begun>>
    /\ UNCHANGED compVars

CallerStep(c) ==
    \/ OpenBrowserBegin(c)
    \/ InitFields(c)
    \/ AssignGlobal(c)
    \/ OpenBrowserRun(c)
    \/ CallRun(c)
    \/ RunGet(c)
    \/ OpenOut(c)
    \/ OpenCtxBrowser(c)
    \/ OpenCtxPage(c)
    \/ DynFirstRun(c)
    \/ DynSecondRun(c)
    \/ DynOut(c)

WorkerStep(w) ==
    \/ StartDriver(w)
    \/ TakeTask(w)
    \/ ExecFunc(w)
    \/ ExecHandle(w)
    \/ OpenLaunch(w)
    \/ OpenGoto(w)
    \/ OpenSetPage(w)

Next ==
    \/ \E c \in Callers : CallerStep(c)
    \/ \E w \in Workers : WorkerStep(w)

Spec == Init /\ [][Next]_vars

\* Every thread that can take a step eventually takes one.
Fairness ==
    /\ \A c \in Callers : WF_vars(CallerStep(c))
    /\ \A w \in Workers : WF_vars(WorkerStep(w))

FairSpec == Spec /\ Fairness

\* ------------------------------------------------------------- components
\* One component's execute followed step by step.  The closure it hands to
\* global_worker.run is executed by the worker thread and what it returns or
\* raises is handed back by run; a live worker is taken as given here.

\* An exception execute raises, and no exception.
Exc(type, msg) == [type |-> type, msg |-> msg]
NoExc == Exc("none", "")

\* PlaywrightCheckElement.  page: the page inPort or ctx has a page; locator:
\* the locator inPort has one; to_be_checked: None, True or False.
CheckInputs ==
    [page : BOOLEAN, locator : BOOLEAN, to_be_checked : {"None", "True", "False"}]

\* The element: whether it is checked, and whether locator.check() would
\* fail on it (then the driver raises); what has been called on it so far.
CheckElements ==
    [checked : BOOLEAN, check_fails : BOOLEAN,
     check_called : {FALSE}, is_checked_called : {FALSE}]

CheckInit ==
    /\ kpc = "check"
    /\ kin \in CheckInputs
    /\ kenv \in CheckElements
    /\ kout = [out_page |-> FALSE, raised |-> NoExc]

ToBeCheckedDefaultTrue(v) == v # "False"

\* Line 374: to_be_checked if it is not None, else False.
ToBeCheckedValue(v) == IF v = "None" THEN FALSE ELSE v = "True"

\* Lines 371-377: without a page or a locator execute raises ValueError.
CheckBegin ==
    /\ kpc = "check"
    /\ IF ~kin.page \/ ~kin.locator
       THEN /\ kout' = [kout EXCEPT !.raised =
                           Exc("ValueError", "Missing page instance or locator.")]
            /\ kpc' = "check_done"
       ELSE /\ kpc' = "check_act"
            /\ UNCHANGED kout
    /\ UNCHANGED <<kin, kenv, mainVars>>

\* Lines 380-384 of check_and_assert: locator_obj.check() unless
\* to_be_checked; check() leaves the element checked or raises.
CheckAction ==
    /\ kpc = "check_act"
    /\ IF ~ToBeCheckedValue(kin.to_be_checked)
       THEN IF kenv.check_fails
            THEN /\ kenv' = [kenv EXCEPT !.check_called = TRUE]
                 /\ kout' = [kout EXCEPT !.raised = Exc("Error", "check")]
                 /\ kpc' = "check_done"
            ELSE /\ kenv' = [kenv EXCEPT !.check_called = TRUE, !.checked = TRUE]
                 /\ kpc' = "check_wait"
                 /\ UNCHANGED kout
       ELSE /\ kpc' = "check_wait"
            /\ UNCHANGED <<kenv, kout>>
    /\ UNCHANGED <<kin, mainVars>>

\* Line 385: p.wait_for_timeout(500); the page may change the element
\* meanwhile.  The wait may fail (the page was closed): the failure leaves
\* check_and_assert and run raises it in execute (line 390).
CheckWait ==
    /\ kpc = "check_wait"
    /\ \/ /\ \E b \in BOOLEAN : kenv' = [kenv EXCEPT !.checked = b]
          /\ kpc' = "check_assert"
          /\ UNCHANGED kout
       \/ /\ kout' = [kout EXCEPT !.raised = Exc("Error", "wait_for_timeout")]
          /\ kpc' = "check_done"
          /\ UNCHANGED kenv
    /\ UNCHANGED <<kin, mainVars>>

\* Lines 386-391: is_checked() may fail (the element was detached); when it
\* returns, not is_checked() raises ValueError; run re-raises either in
\* execute; otherwise out_page is set.
CheckAssert ==
    /\ kpc = "check_assert"
    /\ kenv' = [kenv EXCEPT !.is_checked_called = TRUE]
    /\ \/ IF ~kenv.checked
          THEN kout' = [kout EXCEPT !.raised =
                           Exc("ValueError", "Assertion failed: Element is not checked!")]
          ELSE kout' = [kout EXCEPT !.out_page = TRUE]
       \/ kout' = [kout EXCEPT !.raised = Exc("Error", "is_checked")]
    /\ kpc' = "check_done"
    /\ UNCHANGED <<kin, mainVars>>

\* PlaywrightCaptureEndpoint.  A URL is the sequence of its pieces, the
\* empty string the empty sequence; None is a value of its own.
Urls ==
    { <<"http://h/api/", "components", "?", "q=1">>,
      <<"http://h/api/", "components", "/", "?", "q=1">>,
      <<"http://h/api/", "other">> }
NoneUrl == <<"None">>

\* sub in s, for strings as sequences of pieces.
Contains(s, sub) ==
    \E i \in 1..(Len(s) - Len(sub) + 1) : SubSeq(s, i, i + Len(sub) - 1) = sub

NeedleOfDocstring == <<"components", "?">>

\* Line 839: the text the listener looks for in request.url.
Needle == <<"components", "/", "?">>

CapInputs == [page : BOOLEAN, reload_page : {"None", "True", "False"}]

CapInit ==
    /\ kpc = "cap"
    /\ kin \in CapInputs
    /\ kenv = [listening |-> FALSE, reloaded |-> FALSE, finished |-> <<>>,
               captured_url |-> NoneUrl]
    /\ kout = [endpoint_url |-> NoneUrl, out_page |-> FALSE, raised |-> NoExc]

\* Line 832: True if reload_page is None, else reload_page.
DoReload(v) == IF v = "None" THEN TRUE ELSE v = "True"

\* Line 851: captured_url if it is truthy, else "".
EndpointUrl(u) == IF u = NoneUrl \/ u = <<>> THEN <<>> ELSE u

\* Lines 827-834.
CapBegin ==
    /\ kpc = "cap"
    /\ IF ~kin.page
       THEN /\ kout' = [kout EXCEPT !.raised =
                           Exc("ValueError", "Missing Playwright page instance.")]
            /\ kpc' = "cap_done"
       ELSE /\ kpc' = "cap_on"
            /\ UNCHANGED kout
    /\ UNCHANGED <<kin, kenv, mainVars>>

\* Line 844: p.on("requestfinished", on_request_finished)
CapListen ==
    /\ kpc = "cap_on"
    /\ kenv' = [kenv EXCEPT !.listening = TRUE]
    /\ kpc' = "cap_reload"
    /\ UNCHANGED <<kin, kout, mainVars>>

\* Lines 845-846: p.reload() if do_reload.  The reload may fail (a timeout,
\* a closed page): the failure leaves run_action, and run raises it in
\* execute (line 850).
CapReload ==
    /\ kpc = "cap_reload"
    /\ \/ /\ kenv' = [kenv EXCEPT !.reloaded = DoReload(kin.reload_page)]
          /\ kpc' = "cap_wait"
          /\ UNCHANGED kout
       \/ /\ DoReload(kin.reload_page)
          /\ kout' = [kout EXCEPT !.raised = Exc("Error", "reload")]
          /\ kpc' = "cap_done"
          /\ UNCHANGED kenv
    /\ UNCHANGED <<kin, mainVars>>

\* Lines 836-841, on_request_finished: a request of the page finishes while
\* the listener is registered: during the reload or the wait of line 847,
\* and after execute has ended for as long as the listener stays registered.
CapRequestFinished ==
    /\ kpc \in {"cap_wait", "cap_done"}
    /\ kenv.listening
    /\ Len(kenv.finished) < MaxRequests
    /\ \E url \in Urls :
          kenv' = [kenv EXCEPT !.finished = Append(@, url),
                               !.captured_url = IF Contains(url, Needle)
                                                THEN url ELSE @]
    /\ UNCHANGED <<kpc, kin, kout, mainVars>>

\* Lines 847-848: the wait ends and p.remove_listener(...) is called; or
\* the wait fails (the page was closed), line 848 is skipped and run raises
\* the failure in execute (line 850).
CapUnlisten ==
    /\ kpc = "cap_wait"
    /\ \/ /\ kenv' = [kenv EXCEPT !.listening = FALSE]
          /\ kpc' = "cap_out"
          /\ UNCHANGED kout
       \/ /\ kout' = [kout EXCEPT !.raised = Exc("Error", "wait_for_timeout")]
          /\ kpc' = "cap_done"
          /\ UNCHANGED kenv
    /\ UNCHANGED <<kin, mainVars>>

\* Lines 850-852.
CapOut ==
    /\ kpc = "cap_out"
    /\ kout' = [kout EXCEPT !.endpoint_url = EndpointUrl(kenv.captured_url),
                            !.out_page = TRUE]
    /\ kpc' = "cap_done"
    /\ UNCHANGED <<kin, kenv, mainVars>>

\* PlaywrightExtractCategoryInfo.  A string is the sequence of its
\* characters.  str.lower() and str.strip() on the characters used here:
Lower(s) == [i \in 1..Len(s) |-> IF s[i] = "P" THEN "p" ELSE s[i]]

RECURSIVE LStrip(_)
LStrip(s) == IF s # <<>> /\ Head(s) = " " THEN LStrip(Tail(s)) ELSE s

RECURSIVE RStrip(_)
RStrip(s) ==
    IF s # <<>> /\ s[Len(s)] = " " THEN RStrip(SubSeq(s, 1, Len(s) - 1)) ELSE s

Strip(s) == RStrip(LStrip(s))

\* What the "category" key of an object holds: a string, null, or the key
\* is absent.
StrCat(s) == [kind |-> "str", s |-> s]
NullCat == [kind |-> "null", s |-> <<>>]
AbsentCat == [kind |-> "absent", s |-> <<>>]
Categories ==
    {StrCat(<<"p">>), StrCat(<<"P", " ">>), StrCat(<<"q">>), NullCat, AbsentCat}

\* A parsed JSON value: a scalar, a list of values, or an object with its
\* values in document order; task tells whether the object has a "task"
\* key, category what its "category" key holds.
Scalar == [type |-> "scalar", task |-> FALSE, category |-> AbsentCat, items |-> <<>>]
List(items) == [type |-> "list", task |-> FALSE, category |-> AbsentCat, items |-> items]
Dict(task, category, items) ==
    [type |-> "dict", task |-> task, category |-> category, items |-> items]

\* Every JSON value of exactly n values, and every sequence of values of n
\* values in all.
RECURSIVE TreesOfSize(_), ForestsOfSize(_)
TreesOfSize(n) ==
    (IF n = 1 THEN {Scalar} ELSE {})
        \cup {List(f) : f \in ForestsOfSize(n - 1)}
        \cup {Dict(FALSE, AbsentCat, f) : f \in ForestsOfSize(n - 1)}
        \cup {Dict(TRUE, cat, f) : cat \in Categories, f \in ForestsOfSize(n - 1)}

ForestsOfSize(n) ==
    IF n = 0 THEN {<<>>}
    ELSE UNION {{<<t>> \o f : t \in TreesOfSize(k), f \in ForestsOfSize(n - k)} :
                  k \in 1..n}

JsonResponses == UNION {TreesOfSize(n) : n \in 1..MaxNodes}

ExtInputs ==
    [page : BOOLEAN, category : {<<"P">>, <<" ", "p">>, <<"q">>, <<" ">>}]

ExtInit ==
    /\ kpc = "ext"
    /\ kin \in ExtInputs
    /\ \E data \in JsonResponses :
          kenv = [data |-> data, desired_cat |-> <<>>, components |-> <<>>]
    /\ kout = [category_info |-> <<>>, raised |-> NoExc]

\* Lines 1109-1120, flatten: a list is flattened item by item; an object
\* with a "task" key is taken whole; any other object is flattened value by
\* value; anything else gives nothing.
RECURSIVE Flatten(_), FlattenAll(_)
Flatten(data) ==
    IF data.type = "list" THEN FlattenAll(data.items)
    ELSE IF data.type = "dict"
    THEN IF data.task THEN <<data>> ELSE FlattenAll(data.items)
    ELSE <<>>

FlattenAll(items) ==
    IF items = <<>> THEN <<>>
    ELSE Flatten(Head(items)) \o FlattenAll(Tail(items))

\* Line 1125: comp.get("category", "")
GetCategory(comp) ==
    IF comp.category.kind = "absent" THEN StrCat(<<>>) ELSE comp.category

\* Line 1125: the test of the list comprehension.
Matches(comp, desired_cat) == Lower(Strip(GetCategory(comp).s)) = desired_cat

\* Lines 1097-1103: page check; desired_cat = category.strip().lower()
ExtBegin ==
    /\ kpc = "ext"
    /\ IF ~kin.page
       THEN /\ kout' = [kout EXCEPT !.raised =
                           Exc("ValueError", "Missing Playwright page instance.")]
            /\ kpc' = "ext_done"
            /\ UNCHANGED kenv
       ELSE /\ kenv' = [kenv EXCEPT !.desired_cat = Lower(Strip(kin.category))]
            /\ kpc' = "ext_flatten"
            /\ UNCHANGED kout
    /\ UNCHANGED <<kin, mainVars>>

\* Lines 1106-1123: the response is read and parsed; components =
\* flatten(data).  Or inner_text("body") fails on the worker thread (the
\* page was closed) and run raises the failure in execute.
ExtFlatten ==
    /\ kpc = "ext_flatten"
    /\ \/ /\ kenv' = [kenv EXCEPT !.components = Flatten(kenv.data)]
          /\ kpc' = "ext_filter"
          /\ UNCHANGED kout
       \/ /\ kout' = [kout EXCEPT !.raised = Exc("Error", "inner_text")]
          /\ kpc' = "ext_done"
          /\ UNCHANGED kenv
    /\ UNCHANGED <<kin, mainVars>>

\* Lines 1125-1126: the list comprehension; a "category" that is null has
\* no strip(): AttributeError.
ExtFilter ==
    /\ kpc = "ext_filter"
    /\ IF \E i \in 1..Len(kenv.components) :
             GetCategory(kenv.components[i]).kind = "null"
       THEN kout' = [kout EXCEPT !.raised =
                        Exc("AttributeError", "'NoneType' object has no attribute 'strip'")]
       ELSE kout' = [kout EXCEPT !.category_info =
                        SelectSeq(kenv.components,
                                  LAMBDA comp : Matches(comp, kenv.desired_cat))]
    /\ kpc' = "ext_done"
    /\ UNCHANGED <<kin, kenv, mainVars>>

\* The components that take a page: what execute does about a missing page
\* before it hands anything to global_worker.run.
PageComponents ==
    {"PlaywrightIdentifyElement", "PlaywrightClickElement", "PlaywrightFillInput",
     "PlaywrightPressKey", "PlaywrightHoverElement", "PlaywrightCheckElement",
     "PlaywrightSelectOptions", "PlaywrightUploadFiles", "PlaywrightFocusElement",
     "PlaywrightScrolling", "PlaywrightDragAndDrop", "PlaywrightTakeScreenshot",
     "PlaywrightWaitForElement", "PlaywrightCloseBrowser", "PlaywrightNavigateToURL",
     "PlaywrightExtractComponentInfo", "PlaywrightCaptureEndpoint",
     "PlaywrightDynamicElementHandle", "PlaywrightExtractCategoryInfo"}

\* locator: None, a locator object, a selector string, or the selector
\* string "{missing}", which str.format(**ctx) cannot format; worker:
\* global_worker is not None.  Every other inPort (key, url, file_path,
\* source, target, browser, script) is given.
GuardInputs ==
    [component : PageComponents, page : BOOLEAN,
     locator : {"None", "object", "str", "str_bad_format"}, worker : BOOLEAN]

GuardInit ==
    /\ kpc = "guard"
    /\ kin \in GuardInputs
    /\ kenv = [submitted |-> FALSE]
    /\ kout = [raised |-> NoExc]

\* The components whose page test is `if not page_obj or not locator_obj`
\* (lines 264, 339, 376, 422, 461, 492, 674).
LocatorTested ==
    {"PlaywrightFillInput", "PlaywrightHoverElement", "PlaywrightCheckElement",
     "PlaywrightSelectOptions", "PlaywrightUploadFiles", "PlaywrightFocusElement",
     "PlaywrightWaitForElement"}

\* The ValueError each component's page test raises.
PageTestError(component) ==
    IF component \in {"PlaywrightIdentifyElement", "PlaywrightTakeScreenshot"}
    THEN Exc("ValueError", "No valid Playwright page instance provided.")
    ELSE IF component \in LocatorTested
    THEN Exc("ValueError", "Missing page instance or locator.")
    ELSE IF component = "PlaywrightDragAndDrop"
    THEN Exc("ValueError", "Missing page instance or source/target locator.")
    ELSE IF component = "PlaywrightCloseBrowser"
    THEN Exc("ValueError", "Missing page instance or browser.")
    ELSE Exc("ValueError", "Missing Playwright page instance.")

\* Line 192 of PlaywrightClickElement: "{missing}".format(**ctx) raised
\* KeyError('missing').
SelectorFormatError ==
    Exc("ValueError", "Error in formatting selector: {missing}. Error: 'missing'")

\* What execute raises, with no page, before it reaches global_worker.run:
\* PlaywrightExtractComponentInfo tests nothing (lines 777-780);
\* PlaywrightClickElement calls page_obj.locator(...) on line 193, before its
\* test on line 201, when the locator is a string (a string that cannot be
\* formatted raises ValueError on line 192); the others raise the ValueError
\* of their page test.
NoPageFailure(component, locator) ==
    IF component = "PlaywrightExtractComponentInfo" THEN NoExc
    ELSE IF component = "PlaywrightClickElement" /\ locator = "str"
    THEN Exc("AttributeError", "'NoneType' object has no attribute 'locator'")
    ELSE IF component = "PlaywrightClickElement" /\ locator = "str_bad_format"
    THEN SelectorFormatError
    ELSE PageTestError(component)

\* execute up to and including its page test: PlaywrightExtractComponentInfo
\* has none; PlaywrightClickElement formats a string locator first (lines
\* 188-193); the test of the components of LocatorTested fails without a
\* locator as well.
GuardBegin ==
    /\ kpc = "guard"
    /\ IF kin.component = "PlaywrightExtractComponentInfo"
       THEN /\ kpc' = "guard_run"
            /\ UNCHANGED kout
       ELSE IF ~kin.page
       THEN /\ kout' = [kout EXCEPT !.raised = NoPageFailure(kin.component, kin.locator)]
            /\ kpc' = "guard_done"
       ELSE IF kin.component = "PlaywrightClickElement" /\ kin.locator = "str_bad_format"
       THEN /\ kout' = [kout EXCEPT !.raised = SelectorFormatError]
            /\ kpc' = "guard_done"
       ELSE IF kin.component \in LocatorTested /\ kin.locator = "None"
       THEN /\ kout' = [kout EXCEPT !.raised = PageTestError(kin.component)]
            /\ kpc' = "guard_done"
       ELSE /\ kpc' = "guard_passed"
            /\ UNCHANGED kout
    /\ UNCHANGED <<kin, kenv, mainVars>>

\* Line 780: global_worker.run(lambda p: p.inner_text("body"), page_obj);
\* with global_worker None the attribute lookup fails in the caller.
GuardRun ==
    /\ kpc = "guard_run"
    /\ IF ~kin.worker
       THEN /\ kout' = [kout EXCEPT !.raised =
                           Exc("AttributeError", "'NoneType' object has no attribute 'run'")]
            /\ kpc' = "guard_done"
            /\ UNCHANGED kenv
       ELSE /\ kenv' = [kenv EXCEPT !.submitted = TRUE]
            /\ kpc' = "guard_op"
            /\ UNCHANGED kout
    /\ UNCHANGED <<kin, mainVars>>

\* The worker thread executes the lambda of line 780 with p = page_obj: on
\* None it raises AttributeError, which run raises in execute.
GuardOp ==
    /\ kpc = "guard_op"
    /\ IF ~kin.page
       THEN /\ kout' = [kout EXCEPT !.raised =
                           Exc("AttributeError", "'NoneType' object has no attribute 'inner_text'")]
            /\ kpc' = "guard_done"
       ELSE /\ kpc' = "guard_passed"
            /\ UNCHANGED kout
    /\ UNCHANGED <<kin, kenv, mainVars>>

CompInit ==
    /\ WorkerInit
    /\ \/ CheckInit
       \/ CapInit
       \/ ExtInit
       \/ GuardInit

CompNext ==
    \/ CheckBegin
    \/ CheckAction
    \/ CheckWait
    \/ CheckAssert
    \/ CapBegin
    \/ CapListen
    \/ CapReload
    \/ CapRequestFinished
    \/ CapUnlisten
    \/ CapOut
    \/ ExtBegin
    \/ ExtFlatten
    \/ ExtFilter
    \/ GuardBegin
    \/ GuardRun
    \/ GuardOp

CompSpec == CompInit /\ [][CompNext]_vars

\* ----------------------------------------------------------------- claims

\* The worker thread is between taking a task (line 24) and putting its
\* reply (line 27 or 29): the task's callable is running.
Executing(w) == wpc[w] \in {"exec", "ob_launched", "ob_setb"}

\* The caller's call of run put a task on a queue and has returned or raised.
Answered(c) == subWorker[c] # 0 /\ last[c] # NoOutcome

TypeOK ==
    /\ global_worker \in 0..NumCallers
    /\ nworkers \in 0..NumCallers
    /\ \A w \in Workers : Len(task_queue[w]) <= NumCallers
    /\ \A c \in Callers : Len(reply[c]) <= 1

\* C1 -- Serialization: in every reachable state at most one submitted
\* callable is executing; no two executions overlap.
Serialization == Cardinality({w \in Workers : Executing(w)}) <= 1

\* C2 -- FIFO ordering: on each task_queue, a task put before another begins
\* before it: no task still waiting on the queue was put before a task the
\* loop has already taken.
FifoOrder ==
    \A w \in Workers :
        \A i \in 1..Len(task_queue[w]) :
            \A k \in begun[w] : k < task_queue[w][i].ticket

\* Two tasks were put on one queue and the loop has taken both.
FifoWitness == \E w \in Workers : {1, 2} \subseteq begun[w]

\* C3 -- Singleton, single construction: at most one PlaywrightWorker is
\* ever constructed.
SingleConstruction == nworkers <= 1

\* C4 -- Singleton, same handle: all callers of PlaywrightOpenBrowser.execute
\* submit to the same worker and output the same worker.
SameHandle ==
    \A c1, c2 \in Callers :
        (cur[c1].func = "open_browser" /\ cur[c2].func = "open_browser") =>
            /\ (subWorker[c1] # 0 /\ subWorker[c2] # 0)
                   => subWorker[c1] = subWorker[c2]
            /\ (out[c1].worker # 0 /\ out[c2].worker # 0)
                   => out[c1].worker = out[c2].worker

\* C5 -- Result fidelity: run returns exactly the value its callable
\* returned and raises exactly the failure its callable raised; no outcome
\* is swallowed or transformed.  Once the callable of a caller's task has
\* ended on the worker thread, its outcome is what run has handed to the
\* caller, or it is the one reply waiting on the caller's result_queue.
ResultFidelity ==
    \A c \in Callers :
        /\ Answered(c) => (opres[c] # NoOutcome /\ last[c] = opres[c])
        /\ (subWorker[c] # 0 /\ opres[c] # NoOutcome /\ ~Answered(c))
               => reply[c] = <<LoopReply(opres[c])>>

\* C6 -- Concurrent isolation: a reply on a caller's result_queue, and the
\* result a caller gets from run, was produced by that caller's own task.
Isolation ==
    \A c \in Callers :
        /\ \A i \in 1..Len(reply[c]) : reply[c][i].result.c = c
        /\ Answered(c) => last[c].val.c = c

\* Two callers submitted to the same worker; one has its own value back
\* while the other's reply is waiting on its own result_queue.
IsolationWitness ==
    \E c1, c2 \in Callers :
        /\ c1 # c2
        /\ subWorker[c1] = subWorker[c2]
        /\ Answered(c1) /\ last[c1].val = FuncValue(cur[c1])
        /\ pc[c2] = "wait" /\ reply[c2] # <<>>

\* C7 -- Non-crash under failure: no failure raised by a submitted callable
\* ends the worker thread.
LoopSurvivesFailure == \A w \in Workers : wpc[w] # "dead_exc"

\* C8 -- Every submit eventually answers: a caller blocked in run eventually
\* returns or raises.
EveryCallAnswered == \A c \in Callers : (pc[c] = "wait") ~> (pc[c] # "wait")

\* The failure of sync_playwright().start() that a caller would be handed.
StartError(c) == Ref("StartError", c)

\* C9 -- Initialization failure propagates: a caller whose new worker failed
\* to start its driver session is not left blocked in run and does not carry
\* on; its call ends by raising that failure.
InitFailurePropagates ==
    \A c \in Callers :
        (cw[c] # 0 /\ wpc[cw[c]] = "dead_init" /\ pc[c] \in {"wait", "o_out", "o_ctxb", "o_ctxp", "done"})
            => last[c] = Raises(StartError(c))

\* C10 -- Initialization failure leaves the singleton uninitialized: when the
\* only worker constructed failed to start its driver session, global_worker
\* is None once the caller is past the initialization.
InitFailureLeavesNone ==
    \A c \in Callers :
        (nworkers = 1 /\ cw[c] # 0 /\ wpc[cw[c]] = "dead_init"
                      /\ pc[c] \notin {"o_init", "o_assign"})
            => global_worker = 0

\* Some task of caller c is on a task_queue or held by a worker thread.
OnQueue(c) == \E w \in Workers : \E i \in 1..Len(task_queue[w]) : task_queue[w][i].task.c = c
Held(c) == \E w \in Workers : wtask[w].c = c

\* C11 -- Resource confinement: only steps of a worker thread change a
\* worker's _playwright, _browser or _page; a step that changes one of them
\* moves no caller.
Confinement ==
    [][(<<playwright, browser, page>>' # <<playwright, browser, page>>) => pc' = pc]_vars

\* C12 -- Submission-time failure: a func argument that is not callable never
\* reaches a task_queue (run fails before putting it).
NotCallableNeverQueued ==
    \A w \in Workers :
        \A i \in 1..Len(task_queue[w]) : task_queue[w][i].task.func # "not_callable"

\* C13 -- Blocking submit: once run has returned or raised, the caller's
\* callable has finished on the worker thread: it has an outcome and its task
\* is neither waiting on a queue nor held by a worker thread.
BlockingSubmit ==
    \A c \in Callers :
        Answered(c) => (opres[c] # NoOutcome /\ ~OnQueue(c) /\ ~Held(c))

\* A call of run has returned after its callable ran on a worker thread.
BlockingWitness ==
    \E c \in Callers : Answered(c) /\ pc[c] = "done" /\ opres[c] = Returns(FuncValue(cur[c]))
\* C14 -- One-shot reply: a result_queue never holds more than one reply, and
\* once the callable of a waiting caller's task has finished on the worker
\* thread, its reply has been written exactly once.
OneShotReply ==
    \A c \in Callers :
        /\ Len(reply[c]) <= 1
        /\ (pc[c] = "wait" /\ opres[c] # NoOutcome) => Len(reply[c]) = 1

\* C15 -- Each Task is executed exactly once: every task put on a queue is
\* either still waiting or was taken once, and no task is dropped: none is
\* left on the queue of a worker whose thread has ended.
NoTaskDropped ==
    \A w \in Workers :
        /\ nput[w] = Cardinality(begun[w]) + Len(task_queue[w])
        /\ wpc[w] \in {"dead_init", "dead_exc"} => task_queue[w] = <<>>

\* The task of caller c with callable func is waiting on a task_queue or is
\* held by a worker thread: put, and its execution not yet completed.
Pending(c, func) ==
    \/ \E w \in Workers : \E i \in 1..Len(task_queue[w]) :
            task_queue[w][i].task = Task(c, func)
    \/ \E w \in Workers : wtask[w] = Task(c, func)

\* C16 -- Program order for a sequential caller: a caller that submits
\* element_handle, awaits its result and then submits evaluate_handle never
\* has the second waiting or executing while the first has not completed.
ProgramOrder ==
    \A c \in Callers :
        Pending(c, "evaluate_handle") =>
            (~Pending(c, "element_handle") /\ pc[c] = "wait")

\* A caller's second callable is executing on a worker while another
\* caller's task waits on the same queue.
ProgramOrderWitness ==
    \E c \in Callers : \E w \in Workers :
        /\ wtask[w] = Task(c, "evaluate_handle")
        /\ \E i \in 1..Len(task_queue[w]) : task_queue[w][i].task.c # c

\* C20 -- Worker state machine: a worker thread leaves Idle only by taking
\* the head of its queue and then executes it; it comes back to Idle from
\* Executing only in the step that puts the held task's reply on that task's
\* result_queue, the callable having ended; and it takes a task only when
\* Idle and holding none.
WorkerStateMachine ==
    [][\A w \in Workers :
          /\ (wpc[w] = "idle" /\ wpc'[w] # "idle") =>
                 /\ task_queue[w] # <<>>
                 /\ wpc'[w] = "exec"
                 /\ wtask'[w] = Head(task_queue[w]).task
          /\ (Executing(w) /\ wpc'[w] = "idle") =>
                 /\ Len(reply'[wtask[w].rq]) = Len(reply[wtask[w].rq]) + 1
                 /\ opres'[wtask[w].c] # NoOutcome
          /\ Len(task_queue'[w]) < Len(task_queue[w]) =>
                 (wpc[w] = "idle" /\ wtask[w] = NoTask)
      ]_vars

\* A worker thread is Idle again after having taken and answered two tasks.
StateMachineWitness ==
    \E w \in Workers : wpc[w] = "idle" /\ Cardinality(begun[w]) >= 2

\* execute ended with the failure of a driver call (check, wait_for_timeout
\* or is_checked raised), forwarded by run.
DriverFailed == kout.raised.type = "Error"

\* C17 -- PlaywrightCheckElement, given a page and a locator: the check
\* action is performed if and only if to_be_checked is False or not provided;
\* unless a driver call failed, the operation then asserts the element is
\* checked (and it never asserts after a failed check action); execute fails
\* with ValueError exactly when the assertion was made and the element was
\* not checked at that time, and sets out_page exactly when it was.
CheckThenAssert ==
    (kpc = "check_done" /\ kin.page /\ kin.locator) =>
        /\ kenv.check_called <=> kin.to_be_checked \in {"None", "False"}
        /\ ~DriverFailed => kenv.is_checked_called
        /\ kenv.is_checked_called => ~(kenv.check_called /\ kenv.check_fails)
        /\ kout.raised.type = "ValueError"
               <=> (kenv.is_checked_called /\ ~DriverFailed /\ ~kenv.checked)
        /\ kout.out_page
               <=> (kenv.is_checked_called /\ ~DriverFailed /\ kenv.checked)

\* to_be_checked was not provided, the check action was performed and the
\* element, unchecked again by the time of the assertion, made execute fail.
CheckWitness ==
    /\ kpc = "check_done"
    /\ kin.to_be_checked = "None" /\ kenv.check_called
    /\ kenv.is_checked_called /\ kout.raised.type = "ValueError"

\* The requests that finished during the capture whose URL contains the text
\* the docstring names.
ComponentsRequests ==
    {i \in 1..Len(kenv.finished) : Contains(kenv.finished[i], NeedleOfDocstring)}

\* C18 -- PlaywrightCaptureEndpoint: if a request whose URL contains
\* "components?" finished while the capture ran, endpoint_url is the URL of
\* such a request, otherwise the empty string; the page is reloaded unless
\* reload_page is explicitly False.
CaptureEndpoint ==
    (kpc = "cap_done" /\ kin.page /\ kout.raised = NoExc) =>
        /\ ComponentsRequests # {} =>
               \E i \in ComponentsRequests : kout.endpoint_url = kenv.finished[i]
        /\ ComponentsRequests = {} => kout.endpoint_url = <<>>
        /\ kenv.reloaded <=> kin.reload_page # "False"

\* The positions of the values of a JSON value: <<>> is the value itself,
\* <<i>> \o p the position p inside its i-th item.
RECURSIVE PathsOf(_)
PathsOf(t) ==
    {<<>>} \cup UNION {{<<i>> \o p : p \in PathsOf(t.items[i])} : i \in 1..Len(t.items)}

RECURSIVE NodeAt(_, _)
NodeAt(t, p) == IF p = <<>> THEN t ELSE NodeAt(t.items[Head(p)], Tail(p))

\* p comes before q in the document: at the first index where they differ.
RECURSIVE Before(_, _)
Before(p, q) ==
    IF p = <<>> THEN q # <<>>
    ELSE IF q = <<>> THEN FALSE
    ELSE IF Head(p) = Head(q) THEN Before(Tail(p), Tail(q))
    ELSE Head(p) < Head(q)

\* The component definitions of the response: the objects with a "task" key
\* that lie in no other such object.
ComponentPaths(t) ==
    {p \in PathsOf(t) :
        /\ NodeAt(t, p).type = "dict" /\ NodeAt(t, p).task
        /\ \A n \in 0..(Len(p) - 1) : ~NodeAt(t, SubSeq(p, 1, n)).task}

\* The values at the positions P, in document order.
RECURSIVE InDocumentOrder(_, _)
InDocumentOrder(t, P) ==
    IF P = {} THEN <<>>
    ELSE LET first == CHOOSE p \in P : \A q \in P \ {p} : Before(p, q)
         IN  <<NodeAt(t, first)>> \o InDocumentOrder(t, P \ {first})

\* C19 -- PlaywrightExtractCategoryInfo: once the response has been read,
\* category_info is exactly the list, in document order, of the component definitions of the response
\* whose "category" field equals the requested category case-insensitively.
ExtractAsStated ==
    (kpc = "ext_done" /\ kin.page /\ ~DriverFailed) =>
        kout.category_info =
            InDocumentOrder(kenv.data,
                {p \in ComponentPaths(kenv.data) :
                    /\ NodeAt(kenv.data, p).category.kind = "str"
                    /\ Lower(NodeAt(kenv.data, p).category.s) = Lower(kin.category)})

\* What the extraction does when every component's "category" is a string
\* or absent: category_info is exactly the list, in document
\* order, of the component definitions whose "category" (the empty string
\* when absent) equals the requested category once both are stripped of
\* surrounding whitespace and lower-cased.
ExtractStripped ==
    (/\ kpc = "ext_done" /\ kin.page /\ ~DriverFailed
     /\ \A p \in ComponentPaths(kenv.data) : NodeAt(kenv.data, p).category.kind # "null") =>
        /\ kout.raised = NoExc
        /\ kout.category_info =
              InDocumentOrder(kenv.data,
                  {p \in ComponentPaths(kenv.data) :
                      Lower(Strip(NodeAt(kenv.data, p).category.s))
                          = Lower(Strip(kin.category))})

\* C21 -- Driver session visible to operations: whenever a submitted
\* operation executes on a worker, that worker's _playwright is the session
\* its own thread constructed, never None: the constructor's field
\* initialisation has not overwritten it.
DriverSessionVisible ==
    \A w \in Workers : Executing(w) => playwright[w] = w

\* C24 -- Failed open leaves state unchanged: the step in which open_browser
\* fails on the worker thread, and the launch before it, leave every worker's
\* stored browser and page as they were; the step in which run raises that
\* failure to the caller of execute raises exactly it and leaves ctx and the
\* component's outputs as they were, and execute ends there.
FailedOpenFrame ==
    [][/\ \A w \in Workers :
            (/\ wpc[w] \in {"exec", "ob_launched"}
             /\ wtask[w].func = "open_browser"
             /\ wpc'[w] # wpc[w]
             /\ wpc'[w] \in {"ob_launched", "idle"}
             /\ wpc'[w] = "idle" => opres'[wtask[w].c].tag = "raise")
                => (browser' = browser /\ page' = page)
       /\ \A c \in Callers :
            (/\ pc[c] = "wait" /\ cur[c].func = "open_browser"
             /\ last'[c].tag = "raise")
                => /\ last'[c] = opres[c]
                   /\ out' = out /\ ctx' = ctx
                   /\ pc'[c] = "done"
      ]_vars

\* An open_browser has failed and been raised to its caller while a worker
\* still stores the browser and page of another, successful, open.
FailedOpenWitness ==
    \E c \in Callers : \E w \in Workers :
        /\ cur[c].func = "open_browser" /\ pc[c] = "done"
        /\ last[c] = Raises(DriverError(cur[c]))
        /\ out[c] = NoOut
        /\ browser[w] # NoVal /\ browser[w].c # c /\ page[w] = browser[w]

\* C25 -- Browser/page pair consistency: whenever no open_browser is between
\* its set_browser and its set_page, each worker's stored browser and page
\* come from the same open_browser operation.
PairConsistency ==
    (\A w \in Workers : wpc[w] # "ob_setb") =>
        \A w \in Workers : browser[w] = page[w]

\* C26 -- Only PlaywrightOpenBrowser creates the Worker: global_worker, the
\* number of workers and the set of started threads change only in a step
\* of a caller executing PlaywrightOpenBrowser; a caller that starts another
\* component while global_worker is None fails in that very step, in its
\* own context, with nothing constructed, started or enqueued.
OnlyOpenCreates ==
    [][/\ (\/ global_worker' # global_worker
           \/ nworkers' # nworkers
           \/ \E w \in Workers : wpc[w] = "none" /\ wpc'[w] # "none")
            => \E c \in Callers :
                  /\ pc'[c] # pc[c]
                  /\ cur'[c].func = "open_browser"
       /\ \A c \in Callers :
            (/\ pc[c] = "idle" /\ pc'[c] # "idle"
             /\ cur'[c].func # "open_browser"
             /\ global_worker = 0)
                => /\ pc'[c] = "done"
                   /\ last'[c] = Raises(AttributeError(c))
                   /\ global_worker' = 0 /\ nworkers' = nworkers
                   /\ wpc' = wpc /\ task_queue' = task_queue
      ]_vars

\* A component other than PlaywrightOpenBrowser was executed before any
\* worker existed and failed in its caller; still no worker exists.
OnlyOpenWitness ==
    \E c \in Callers :
        /\ pc[c] = "done" /\ cur[c].func \in RunArgs \cup HandleFuncs
        /\ last[c] = Raises(AttributeError(c)) /\ subWorker[c] = 0
        /\ global_worker = 0 /\ nworkers = 0

\* C27 -- PlaywrightDynamicElementHandle atomicity: from the completion of
\* its element_handle operation until its evaluate_handle operation begins
\* executing, no worker executes another caller's operation.
DynamicHandleAtomic ==
    \A c \in Callers :
        (\/ pc[c] = "d_next"
         \/ pc[c] = "wait" /\ cur[c].func = "evaluate_handle" /\ OnQueue(c))
            => \A w \in Workers : Executing(w) => wtask[w].c = c

\* C23 -- Listener cleanup in PlaywrightCaptureEndpoint: once the capture
\* operation has finished, whether it succeeded or failed, its
\* 'requestfinished' listener is no longer registered on the page.
ListenerRemoved ==
    (kpc = "cap_done" /\ kin.page) => ~kenv.listening

\* C22 -- Missing-page validation is fail-fast: for every Playwright
\* component executed with no page, no task is put on the worker's queue and
\* execute ends by raising ValueError in the caller.
MissingPageFailFast ==
    (kpc \in {"guard", "guard_run", "guard_op", "guard_passed", "guard_done"}
        /\ ~kin.page) =>
        /\ ~kenv.submitted
        /\ kpc # "guard_passed"
        /\ kpc = "guard_done" => kout.raised.type = "ValueError"

====
